---- MODULE Spec2Model ----
(***************************************************************************)
(* Model of the eBay pricing pipeline: raw extraction of listing nodes     *)
(* (scraper.py, scraper_enhanced.py, playwright_scraper.py, app.py), the   *)
(* API handler of app.py, the chunker                                      *)
(* (split_dom_content), the delegate adapter (parse_with_llm), the price   *)
(* normalizer (PriceParser.extract_numeric_price), the market analyzers    *)
(* (MarketAnalyzer.analyze_prices, analyze_market_data), the               *)
(* recommendation generators, the chat responders and the scraper objects  *)
(* with their browser resources.                                           *)
(*                                                                         *)
(* Text is modelled as a sequence of one-character strings, so that        *)
(* strip(), lower(), split() and join() are computed, not assumed.         *)
(***************************************************************************)
EXTENDS Integers, Sequences, FiniteSets, TLC

(***************************************************************************)
(* Bounds of the model.                                                    *)
(***************************************************************************)
MaxNodes == 2
MaxLimit == 2
MaxContentLen == 5
MaxElements == 3
MaxChunkSize == 3
MaxPriceLen == 4
MaxChunks == 3
MaxProducts == 3
MaxBrands == 6
MaxQuestions == 3
MaxRuns == 2

(***************************************************************************)
(* State.                                                                  *)
(***************************************************************************)
\* raw extraction: the backend, the page's listing nodes, the maximum result
\* count, the loop index, the items list, the node index each item came
\* from (history), the returned list, the control point
VARIABLES backend, page, limit, idx, items, item_src, result, xpc

\* chunker: the variant, the content and its units, the maximum size, the
\* loop index, the chunk being filled and its size, the chunks, the units of
\* each chunk (history), the control point
VARIABLES c_variant, c_content, c_units, c_max, c_i,
          current_chunk, current_size, chunks, chunk_units, cpc

\* price normalizer: the price text, the parsed value, the product it is
\* stored on, the value's decimal string, that string parsed again, the
\* control point
VARIABLES n_price, n_parsed, n_product, n_canon, n_again, npc

\* delegate adapter: the variant, the number of chunks, the loop index, the
\* accumulated records, the failed chunks and delegate calls so far
\* (history), the returned dict, the control point, the second calls made
\* for a chunk whose first response was already a well-formed list
\* (history), whether delegate text was passed to eval (history)
VARIABLES p_variant, p_n, p_i, all_results, p_failed, p_calls, p_result, ppc,
          p_reformatted, p_evaluated

\* market analyzer: the variant, the direction round() takes an exact half
\* penny, the list passed in (history), the list as the call leaves it, the
\* analysis returned, the control point
VARIABLES a_variant, a_tie, a_input, a_products, a_analysis, apc

\* recommendation generator: the variant, the direction round() takes an
\* exact half penny, the analysis passed in, the lines returned, the control
\* point
VARIABLES r_variant, r_tie, r_analysis, r_lines, rpc

\* chat responder: the variant, the record list and the analysis passed in,
\* the replies of the calls so far, the delegate calls so far, what the
\* delegate did in the last call
VARIABLES h_variant, h_data, h_analysis, h_replies, h_calls, h_delegate

\* scraper object: the backend, the handles it holds (0: None), every
\* resource opened so far, the scrape calls made, the last call's result,
\* what became of its fetch, whether it used a handle already closed, the
\* control point
VARIABLES s_backend, s_handles, s_resources, s_run, s_result, s_fetch, s_stale, spc

\* API handler: the listing nodes of the search page, the request's
\* max_results, whether loading the page raises, the response, the control
\* point
VARIABLES w_page, w_max, w_load, w_response, wpc

xvars == <<backend, page, limit, idx, items, item_src, result, xpc>>
cvars == <<c_variant, c_content, c_units, c_max, c_i,
           current_chunk, current_size, chunks, chunk_units, cpc>>
nvars == <<n_price, n_parsed, n_product, n_canon, n_again, npc>>
pvars == <<p_variant, p_n, p_i, all_results, p_failed, p_calls, p_result, ppc,
           p_reformatted, p_evaluated>>
avars == <<a_variant, a_tie, a_input, a_products, a_analysis, apc>>
rvars == <<r_variant, r_tie, r_analysis, r_lines, rpc>>
hvars == <<h_variant, h_data, h_analysis, h_replies, h_calls, h_delegate>>
svars == <<s_backend, s_handles, s_resources, s_run, s_result, s_fetch, s_stale, spc>>
wvars == <<w_page, w_max, w_load, w_response, wpc>>
vars == <<xvars, cvars, nvars, pvars, avars, rvars, hvars, svars, wvars>>

(***************************************************************************)
(* Text helpers (Python str methods).                                      *)
(***************************************************************************)
Min(a, b) == IF a <= b THEN a ELSE b

IsSpace(c) == c \in {" ", "\n", "\t"}

RECURSIVE LStrip(_)
LStrip(s) ==
    IF s = <<>> THEN <<>>
    ELSE IF IsSpace(Head(s)) THEN LStrip(Tail(s)) ELSE s

RECURSIVE RStrip(_)
RStrip(s) ==
    IF s = <<>> THEN <<>>
    ELSE IF IsSpace(s[Len(s)]) THEN RStrip(SubSeq(s, 1, Len(s) - 1)) ELSE s

\* str.strip()
Strip(s) == RStrip(LStrip(s))

LowerChar(c) ==
    CASE c = "A" -> "a" [] c = "B" -> "b" [] c = "E" -> "e" [] c = "H" -> "h"
      [] c = "I" -> "i" [] c = "N" -> "n" [] c = "O" -> "o" [] c = "P" -> "p"
      [] c = "S" -> "s" [] c = "Y" -> "y" [] OTHER -> c

\* str.lower()
Lower(s) == [i \in 1..Len(s) |-> LowerChar(s[i])]

\* the literal 'shop on ebay'
ShopOnEbay == <<"s", "h", "o", "p", " ", "o", "n", " ", "e", "b", "a", "y">>

\* the literal 'Not specified'
NotSpecified ==
    <<"N", "o", "t", " ", "s", "p", "e", "c", "i", "f", "i", "e", "d">>

(***************************************************************************)
(* Raw extraction: the listing nodes of one page.                          *)
(* An element a selector looks for is present or not, and carries text;    *)
(* the link element carries its href ("" when the attribute is missing).   *)
(***************************************************************************)
NoElem == [present |-> FALSE, text |-> <<>>]
Elem(t) == [present |-> TRUE, text |-> t]

TitleTexts ==
    { <<" ", "S", "h", "o", "p", " ", "o", "n", " ", "e", "B", "a", "y", " ">>,
      <<"i", "P", "a", "d">> }
PriceTexts == { <<" ", "£", "1", "0">> }
ConditionTexts == { <<"N", "e", "w">> }
Hrefs == { <<>>, <<"/", "i", "t", "m">> }

\* a node whose extraction raises carries no usable element
RaisingNode ==
    [title |-> NoElem, price |-> NoElem, link |-> NoElem,
     condition |-> NoElem, raises |-> TRUE]

ListingNodes ==
    [title : {NoElem} \cup {Elem(t) : t \in TitleTexts},
     price : {NoElem} \cup {Elem(t) : t \in PriceTexts},
     link : {NoElem} \cup {Elem(t) : t \in Hrefs},
     condition : {NoElem} \cup {Elem(t) : t \in ConditionTexts},
     raises : {FALSE}]
    \cup {RaisingNode}

Pages == UNION {[1..n -> ListingNodes] : n \in 0..MaxNodes}

Backends == {"scraper", "enhanced", "playwright", "app"}

\* the maximum result count: an integer, or None (playwright's default)
NoLimit == [isNone |-> TRUE, n |-> 0]
Limit(n) == [isNone |-> FALSE, n |-> n]
Limits(b) ==
    {Limit(n) : n \in 0..MaxLimit} \cup (IF b = "playwright" THEN {NoLimit} ELSE {})

\* Python seq[:n] for n >= 0
SliceTo(seq, n) == SubSeq(seq, 1, Min(n, Len(seq)))

\* a loop without the try around its body: the first node whose extraction
\* raises is the last one examined
ScannedUntilRaise(b, pg, lim) ==
    LET n == IF lim.isNone THEN Len(pg) ELSE Min(lim.n, Len(pg))
        raising == {k \in 1..n : pg[k].raises}
    IN  IF raising = {} THEN SubSeq(pg, 1, n)
        ELSE SubSeq(pg, 1, CHOOSE k \in raising : \A j \in raising : k <= j)

\* the nodes the loop iterates over
Scanned(b, pg, lim) ==
    CASE b = "scraper" -> SliceTo(pg, lim.n)
      [] b = "enhanced" -> SliceTo(pg, lim.n)
      [] b = "app" -> SliceTo(pg, lim.n)
      [] b = "playwright" ->
            IF lim.isNone \/ lim.n = 0 THEN pg ELSE SliceTo(pg, lim.n)

TextOr(e, dflt) == IF e.present THEN e.text ELSE dflt

\* EbayScraper._parse_items, one iteration: the records appended (0 or 1)
ParseItemScraper(node) ==
    IF node.raises THEN <<>>
    ELSE IF ~(node.title.present /\ node.price.present /\ node.link.present)
    THEN <<>>
    ELSE LET title == Strip(node.title.text) IN
         IF Lower(title) = ShopOnEbay THEN <<>>
         ELSE << [title |-> title,
                  price |-> Strip(node.price.text),
                  condition |-> IF node.condition.present
                                THEN Strip(node.condition.text)
                                ELSE NotSpecified,
                  link |-> node.link.text] >>

\* AIEnhancedScraper._parse_items_enhanced, one iteration: the filters of
\* _parse_items; the delegate calls that follow them raise with the node.
\* The record is given by the texts read from the node (raw_price under
\* price); the fields the delegate fills in are left out.
ParseItemEnhanced(node) == ParseItemScraper(node)

\* EbayPlaywrightScraper._extract_item_data, wrapped by the loop of scrape
ExtractItemData(node) ==
    IF node.raises THEN <<>>
    ELSE IF ~node.title.present THEN <<>>
    ELSE LET title == Strip(node.title.text) IN
         IF Lower(title) = ShopOnEbay THEN <<>>
         ELSE IF ~node.link.present \/ node.link.text = <<>> THEN <<>>
         ELSE << [title |-> title,
                  price |-> IF node.price.present
                            THEN Strip(node.price.text) ELSE NotSpecified,
                  condition |-> IF node.condition.present
                                THEN Strip(node.condition.text)
                                ELSE NotSpecified,
                  link |-> node.link.text] >>

\* app.scrape_ebay, one iteration
ScrapeEbayItem(node) ==
    IF node.raises THEN <<>>
    ELSE << [title |-> TextOr(node.title, <<"N", "o", " ", "t", "i", "t", "l", "e">>),
             price |-> TextOr(node.price, <<"N", "o", " ", "p", "r", "i", "c", "e">>),
             condition |-> TextOr(node.condition, NotSpecified),
             link |-> TextOr(node.link, <<"#">>)] >>

ExtractOne(b, node) ==
    CASE b = "scraper" -> ParseItemScraper(node)
      [] b = "enhanced" -> ParseItemEnhanced(node)
      [] b = "playwright" -> ExtractItemData(node)
      [] b = "app" -> ScrapeEbayItem(node)

XInit ==
    /\ backend \in Backends
    /\ page \in Pages
    /\ limit \in Limits(backend)
    /\ idx = 0
    /\ items = <<>>
    /\ item_src = <<>>
    /\ result = <<>>
    /\ xpc = "loop"

\* one iteration of the for loop over the scanned nodes
ParseItem ==
    /\ xpc = "loop"
    /\ idx < Len(Scanned(backend, page, limit))
    /\ LET got == ExtractOne(backend, Scanned(backend, page, limit)[idx + 1]) IN
          /\ items' = items \o got
          /\ item_src' = IF got = <<>> THEN item_src ELSE Append(item_src, idx + 1)
    /\ idx' = idx + 1
    /\ UNCHANGED <<backend, page, limit, result, xpc>>
    /\ UNCHANGED <<cvars, nvars, pvars, avars, rvars, hvars, svars, wvars>>

\* the loop is exhausted: return items
ParseReturn ==
    /\ xpc = "loop"
    /\ idx = Len(Scanned(backend, page, limit))
    /\ result' = items
    /\ xpc' = "done"
    /\ UNCHANGED <<backend, page, limit, idx, items, item_src>>
    /\ UNCHANGED <<cvars, nvars, pvars, avars, rvars, hvars, svars, wvars>>

XNext == ParseItem \/ ParseReturn

\* raw extraction is not running
XIdle ==
    /\ backend = "scraper"
    /\ page = <<>>
    /\ limit = NoLimit
    /\ idx = 0
    /\ items = <<>>
    /\ item_src = <<>>
    /\ result = <<>>
    /\ xpc = "idle"

(***************************************************************************)
(* Chunker: split_dom_content of scraper_enhanced.py (lines of text,       *)
(* joined with "\n") and of scraper.py (element texts, joined with " ").   *)
(***************************************************************************)
\* the first index at which sep occurs in s, 0 if none (str.find + 1)
Find(s, sep) ==
    LET hits == {i \in 1..(Len(s) - Len(sep) + 1) :
                    SubSeq(s, i, i + Len(sep) - 1) = sep}
    IN IF hits = {} THEN 0 ELSE CHOOSE i \in hits : \A j \in hits : i <= j

\* str.split(sep)
RECURSIVE Split(_, _)
Split(s, sep) ==
    LET i == Find(s, sep) IN
    IF i = 0 THEN <<s>>
    ELSE <<SubSeq(s, 1, i - 1)>> \o Split(SubSeq(s, i + Len(sep), Len(s)), sep)

\* sep.join(parts)
RECURSIVE Join(_, _)
Join(parts, sep) ==
    IF parts = <<>> THEN <<>>
    ELSE IF Len(parts) = 1 THEN parts[1]
    ELSE parts[1] \o sep \o Join(Tail(parts), sep)

ChunkChars == {"a", "b", "\n"}
Contents == UNION {[1..n -> ChunkChars] : n \in 0..MaxContentLen}

ElementTexts == {<<>>, <<"a">>, <<"b", " ", "c">>}
ElementLists == UNION {[1..n -> ElementTexts] : n \in 0..MaxElements}

Variants == {"enhanced", "scraper"}

\* the separator a variant joins its units with
Separator(v) == IF v = "enhanced" THEN <<"\n">> ELSE <<" ">>

CInit ==
    /\ c_variant \in Variants
    /\ c_max \in 1..MaxChunkSize
    /\ IF c_variant = "enhanced"
       THEN /\ c_content \in Contents
            /\ c_units = Split(c_content, <<"\n">>)
       ELSE /\ c_content = <<>>
            /\ c_units \in ElementLists
    /\ c_i = 0
    /\ current_chunk = <<>>
    /\ current_size = 0
    /\ chunks = <<>>
    /\ chunk_units = <<>>
    /\ cpc = "loop"

\* a loop body that starts an empty chunk after a flush and loses the line
SplitLineLosesLine(line) ==
    IF current_size + Len(line) > c_max /\ current_chunk # <<>>
    THEN /\ chunks' = Append(chunks, Join(current_chunk, <<"\n">>))
         /\ chunk_units' = Append(chunk_units, current_chunk)
         /\ current_chunk' = <<>>
         /\ current_size' = 0
    ELSE /\ current_chunk' = Append(current_chunk, line)
         /\ current_size' = current_size + Len(line)
         /\ UNCHANGED <<chunks, chunk_units>>

\* scraper_enhanced.split_dom_content: the body of the for loop over lines
SplitLine(line) ==
    LET flush == current_size + Len(line) > c_max /\ current_chunk # <<>>
        cur == IF flush THEN <<>> ELSE current_chunk
        size == IF flush THEN 0 ELSE current_size
    IN /\ chunks' = IF flush
                    THEN Append(chunks, Join(current_chunk, <<"\n">>))
                    ELSE chunks
       /\ chunk_units' = IF flush
                         THEN Append(chunk_units, current_chunk)
                         ELSE chunk_units
       /\ current_chunk' = Append(cur, line)
       /\ current_size' = size + Len(line)

\* scraper.split_dom_content: the body of the for loop over elements
SplitElement(element_text) ==
    LET element_size == Len(element_text) IN
    IF current_size + element_size > c_max
    THEN /\ chunks' = IF current_chunk # <<>>
                      THEN Append(chunks, Join(current_chunk, <<" ">>))
                      ELSE chunks
         /\ chunk_units' = IF current_chunk # <<>>
                           THEN Append(chunk_units, current_chunk)
                           ELSE chunk_units
         /\ current_chunk' = <<element_text>>
         /\ current_size' = element_size
    ELSE /\ current_chunk' = Append(current_chunk, element_text)
         /\ current_size' = current_size + element_size
         /\ UNCHANGED <<chunks, chunk_units>>

\* one iteration of the loop
ChunkUnit ==
    /\ cpc = "loop"
    /\ c_i < Len(c_units)
    /\ IF c_variant = "enhanced"
       THEN SplitLine(c_units[c_i + 1])
       ELSE SplitElement(c_units[c_i + 1])
    /\ c_i' = c_i + 1
    /\ UNCHANGED <<c_variant, c_content, c_units, c_max, cpc>>
    /\ UNCHANGED <<xvars, nvars, pvars, avars, rvars, hvars, svars, wvars>>

\* after the loop: the last chunk is appended if there is one, and chunks returned
ChunkReturn ==
    /\ cpc = "loop"
    /\ c_i = Len(c_units)
    /\ chunks' = IF current_chunk # <<>>
                 THEN Append(chunks, Join(current_chunk, Separator(c_variant)))
                 ELSE chunks
    /\ chunk_units' = IF current_chunk # <<>>
                      THEN Append(chunk_units, current_chunk)
                      ELSE chunk_units
    /\ cpc' = "done"
    /\ UNCHANGED <<c_variant, c_content, c_units, c_max, c_i,
                   current_chunk, current_size>>
    /\ UNCHANGED <<xvars, nvars, pvars, avars, rvars, hvars, svars, wvars>>

CNext == ChunkUnit \/ ChunkReturn

\* the chunker is not running
CIdle ==
    /\ c_variant = "enhanced"
    /\ c_content = <<>>
    /\ c_units = <<>>
    /\ c_max = 1
    /\ c_i = 0
    /\ current_chunk = <<>>
    /\ current_size = 0
    /\ chunks = <<>>
    /\ chunk_units = <<>>
    /\ cpc = "idle"

(***************************************************************************)
(* Price normalizer: PriceParser.extract_numeric_price.                    *)
(* A Decimal is its sign, integer coefficient and exponent:                *)
(* (-1)^sign * coef * 10^exp.  None is the record with none = TRUE.        *)
(***************************************************************************)
None == [none |-> TRUE, sign |-> 0, coef |-> 0, exp |-> 0]
Dec(sg, c, e) == [none |-> FALSE, sign |-> sg, coef |-> c, exp |-> e]

Digits == {"0", "1", "2", "3", "4", "5", "6", "7", "8", "9"}

\* str.isdigit() on the characters of the model's alphabet
IsDigit(c) == c \in Digits

DigitVal(c) ==
    CASE c = "0" -> 0 [] c = "1" -> 1 [] c = "2" -> 2 [] c = "3" -> 3
      [] c = "4" -> 4 [] c = "5" -> 5 [] c = "6" -> 6 [] c = "7" -> 7
      [] c = "8" -> 8 [] c = "9" -> 9

DigitChar(d) ==
    CASE d = 0 -> "0" [] d = 1 -> "1" [] d = 2 -> "2" [] d = 3 -> "3"
      [] d = 4 -> "4" [] d = 5 -> "5" [] d = 6 -> "6" [] d = 7 -> "7"
      [] d = 8 -> "8" [] d = 9 -> "9"

\* int(s) for a string of digits ("" counts 0)
RECURSIVE IntOf(_)
IntOf(s) ==
    IF s = <<>> THEN 0
    ELSE 10 * IntOf(SubSeq(s, 1, Len(s) - 1)) + DigitVal(s[Len(s)])

\* str(n) for n >= 0
RECURSIVE StrOfNat(_)
StrOfNat(n) ==
    IF n < 10 THEN <<DigitChar(n)>>
    ELSE Append(StrOfNat(n \div 10), DigitChar(n % 10))

\* s.count(c)
Count(s, c) == Cardinality({i \in 1..Len(s) : s[i] = c})

\* a replace that removes the last n occurrences of c instead
RECURSIVE RemoveLast(_, _, _)
RemoveLast(s, c, n) ==
    IF s = <<>> \/ n <= 0 THEN s
    ELSE IF s[Len(s)] = c THEN RemoveLast(SubSeq(s, 1, Len(s) - 1), c, n - 1)
    ELSE Append(RemoveLast(SubSeq(s, 1, Len(s) - 1), c, n), s[Len(s)])

\* s.replace(c, '', n): the first n occurrences of c removed
RECURSIVE RemoveFirst(_, _, _)
RemoveFirst(s, c, n) ==
    IF s = <<>> \/ n <= 0 THEN s
    ELSE IF Head(s) = c THEN RemoveFirst(Tail(s), c, n - 1)
    ELSE <<Head(s)>> \o RemoveFirst(Tail(s), c, n)

\* Decimal(s): an optional sign, digits with at most one '.', at least one
\* digit; anything else raises InvalidOperation (None here)
PyDecimal(s) ==
    LET signed == s # <<>> /\ Head(s) \in {"-", "+"}
        sg == IF signed /\ Head(s) = "-" THEN 1 ELSE 0
        body == IF signed THEN Tail(s) ELSE s
        dot == Find(body, <<".">>)
        intpart == IF dot = 0 THEN body ELSE SubSeq(body, 1, dot - 1)
        fracpart == IF dot = 0 THEN <<>> ELSE SubSeq(body, dot + 1, Len(body))
    IN IF /\ \A k \in 1..Len(intpart) : IsDigit(intpart[k])
          /\ \A k \in 1..Len(fracpart) : IsDigit(fracpart[k])
          /\ Len(intpart) + Len(fracpart) > 0
       THEN Dec(sg, IntOf(intpart \o fracpart), 0 - Len(fracpart))
       ELSE None

\* a filter that lets the sign through as well
KeepsNumericAndSign(c) == IsDigit(c) \/ c \in {".", "-"}

\* the characters extract_numeric_price keeps
KeepsNumeric(c) == IsDigit(c) \/ c = "."

\* ''.join(c for c in s if c.isdigit() or c == '.')
RECURSIVE FilterNumeric(_)
FilterNumeric(s) ==
    IF s = <<>> THEN <<>>
    ELSE (IF KeepsNumeric(Head(s)) THEN <<Head(s)>> ELSE <<>>)
         \o FilterNumeric(Tail(s))

\* ' to '
ToSep == <<" ", "t", "o", " ">>

\* PriceParser.extract_numeric_price
ExtractNumericPrice(price_str) ==
    IF price_str = <<>> \/ price_str = NotSpecified \/ Strip(price_str) = <<>>
    THEN None
    ELSE LET ranged == IF Find(price_str, ToSep) # 0
                       THEN Split(price_str, ToSep)[1]
                       ELSE price_str
             kept == FilterNumeric(ranged)
             numeric_str == IF Count(kept, ".") > 1
                            THEN RemoveFirst(kept, ".", Count(kept, ".") - 1)
                            ELSE kept
         IN IF numeric_str # <<>> THEN PyDecimal(numeric_str) ELSE None

\* str(d) of a Decimal: plain notation when exp <= 0 and the leftmost digit
\* is above the 10^-7 place, scientific notation otherwise
DecimalStr(d) ==
    LET int == StrOfNat(d.coef)
        leftdigits == d.exp + Len(int)
        plain == d.exp <= 0 /\ leftdigits > -6
        dotplace == IF plain THEN leftdigits ELSE 1
        zeros(n) == [k \in 1..n |-> "0"]
        intpart == IF dotplace <= 0 THEN <<"0">>
                   ELSE IF dotplace >= Len(int)
                        THEN int \o zeros(dotplace - Len(int))
                        ELSE SubSeq(int, 1, dotplace)
        fracpart == IF dotplace <= 0 THEN <<".">> \o zeros(0 - dotplace) \o int
                    ELSE IF dotplace >= Len(int) THEN <<>>
                         ELSE <<".">> \o SubSeq(int, dotplace + 1, Len(int))
        e == leftdigits - dotplace
        exptext == IF e = 0 THEN <<>>
                   ELSE <<"E", IF e < 0 THEN "-" ELSE "+">>
                        \o StrOfNat(IF e < 0 THEN 0 - e ELSE e)
    IN (IF d.sign = 1 THEN <<"-">> ELSE <<>>) \o intpart \o fracpart \o exptext

RECURSIVE Pow10(_)
Pow10(n) == IF n <= 0 THEN 1 ELSE 10 * Pow10(n - 1)

PriceChars == {"0", "1", ".", "-", "£", " ", "t", "o"}

\* price texts of the spec's examples and of the corner cases of the parser
ExamplePrices ==
    { <<"£", "1", ",", "2", "3", "4", ".", "5", "0">>,
      <<"£", "1", "0", " ", "t", "o", " ", "£", "2", "0">>,
      NotSpecified,
      <<"1", ".", "2", ".", "3", " ", "t", "o", " ", "4">>,
      <<"1", " ", "t", "o", " ", "2", " ", "t", "o", " ", "3">>,
      <<"0", ".", "0", "0", "0", "0", "0", "0", "1">>,
      <<"0", ".", "0", "0", "0", "0", "0", "1">> }

PriceStrings ==
    UNION {[1..n -> PriceChars] : n \in 0..MaxPriceLen} \cup ExamplePrices

NInit ==
    /\ n_price \in PriceStrings
    /\ n_parsed = None
    /\ n_product = [price |-> n_price, has_numeric |-> FALSE, numeric_price |-> None]
    /\ n_canon = <<>>
    /\ n_again = None
    /\ npc = "start"

\* a call of PriceParser.extract_numeric_price on the price text
Normalize ==
    /\ npc = "start"
    /\ n_parsed' = ExtractNumericPrice(n_price)
    /\ npc' = "parsed"
    /\ UNCHANGED <<n_price, n_product, n_canon, n_again>>
    /\ UNCHANGED <<xvars, cvars, pvars, avars, rvars, hvars, svars, wvars>>

\* the numeric price analyze_prices stores for a parsed price (float(price),
\* kept exact here) or 0 for an unparseable one
NumericPrice(parsed) == IF parsed.none THEN Dec(0, 0, 0) ELSE parsed

\* MarketAnalyzer.analyze_prices, the loop body for one product
AnalyzeProduct ==
    /\ npc = "parsed"
    /\ n_product' = [n_product EXCEPT
                        !.has_numeric = TRUE,
                        !.numeric_price =
                            NumericPrice(ExtractNumericPrice(n_product.price))]
    /\ npc' = "analyzed"
    /\ UNCHANGED <<n_price, n_parsed, n_canon, n_again>>
    /\ UNCHANGED <<xvars, cvars, pvars, avars, rvars, hvars, svars, wvars>>

\* the parsed value is written as its decimal string and normalized again
Renormalize ==
    /\ npc \in {"parsed", "analyzed"}
    /\ ~n_parsed.none
    /\ n_canon' = DecimalStr(n_parsed)
    /\ n_again' = ExtractNumericPrice(DecimalStr(n_parsed))
    /\ npc' = "again"
    /\ UNCHANGED <<n_price, n_parsed, n_product>>
    /\ UNCHANGED <<xvars, cvars, pvars, avars, rvars, hvars, svars, wvars>>

NNext == Normalize \/ AnalyzeProduct \/ Renormalize

\* the normalizer is not running
NIdle ==
    /\ n_price = <<>>
    /\ n_parsed = None
    /\ n_product = [price |-> <<>>, has_numeric |-> FALSE, numeric_price |-> None]
    /\ n_canon = <<>>
    /\ n_again = None
    /\ npc = "idle"

(***************************************************************************)
(* Delegate adapter: ContentParser.parse_with_llm (parser_enhanced.py) and *)
(* parse_with_llm / parse_llm_response (parser.py).                        *)
(* An element of the delegate's output is a dict, with or without a        *)
(* 'price' key, or a value that is no dict (a string).                     *)
(***************************************************************************)
Product(isdict, has_price, price) ==
    [isdict |-> isdict, has_price |-> has_price, price |-> price,
     has_numeric |-> FALSE, numeric_price |-> None]

PricedItem == Product(TRUE, TRUE, <<"£", "1", "0">>)
RangeItem == Product(TRUE, TRUE, <<"£", "1", " ", "t", "o", " ", "£", "2">>)
UnpricedItem == Product(TRUE, TRUE, NotSpecified)
KeylessItem == Product(TRUE, FALSE, <<>>)
StringItem == Product(FALSE, FALSE, <<>>)

\* the lists a well-formed response may hold
ItemLists ==
    { <<>>, <<PricedItem>>, <<PricedItem, RangeItem>>, <<UnpricedItem>>,
      <<PricedItem, KeylessItem>>, <<StringItem>> }

\* What the delegate does for one chunk.
\*   call:   "raise" | "ok"            the extraction call
\*   format: "none" | "raise" | "ok"   parser.py's second, formatting call
\*   value:  what parsing the text gives: "malformed" (the parse raises),
\*           "list", "object" (a dict: extend() adds its keys) or "scalar"
Outcome(call, format, value, list) ==
    [call |-> call, format |-> format, value |-> value, list |-> list]

Values ==
    {Outcome("ok", "none", "list", l) : l \in ItemLists}
    \cup {Outcome("ok", "none", v, <<>>) : v \in {"malformed", "object", "scalar"}}

Outcomes(v) ==
    IF v = "enhanced"
    THEN {Outcome("raise", "none", "malformed", <<>>)} \cup Values
    ELSE {Outcome("raise", "none", "malformed", <<>>),
          Outcome("ok", "raise", "malformed", <<>>)}
         \cup {[o EXCEPT !.format = "ok"] : o \in Values}

\* the elements list.extend(value) adds; a scalar raises TypeError
Extended(o) ==
    CASE o.value = "list" -> o.list
      [] o.value = "object" -> <<StringItem>>
      [] OTHER -> <<>>

\* the chunk's extraction failed: a call raised, the text did not parse, or
\* extend() raised
ChunkFailed(o) ==
    o.call = "raise" \/ o.format = "raise" \/ o.value \in {"malformed", "scalar"}

\* delegate calls made for the chunk
CallsMade(v, o) ==
    IF v = "enhanced" THEN 1
    ELSE IF o.call = "raise" THEN 1 ELSE 2

\* parse_llm_response sends the first response back to the delegate without
\* trying to parse it, whether or not it is a well-formed list already
SecondCallMade(v, o) == v = "parser" /\ o.call = "ok"

\* the text is parsed by json.loads (parser_enhanced) or passed to eval
\* (parse_llm_response, once the formatting call has returned)
Evaluated(v, o) == v = "parser" /\ o.format = "ok"

\* str.replace(c, ''): every occurrence of a character removed
RECURSIVE Without(_, _)
Without(s, c) ==
    IF s = <<>> THEN <<>>
    ELSE (IF Head(s) = c THEN <<>> ELSE <<Head(s)>>) \o Without(Tail(s), c)

\* float(s) succeeds on the texts of the model: sign, digits, one '.'
FloatParses(s) == ~PyDecimal(Strip(s)).none

\* MarketAnalyzer.analyze_prices: product.get raises on an element that is
\* no dict; each dict gets its numeric_price
AnalyzePricesRaises(products) ==
    \E k \in 1..Len(products) : ~products[k].isdict

PriceOf(product) == IF product.has_price THEN product.price ELSE <<>>

WithNumericPrice(product) ==
    [product EXCEPT
        !.has_numeric = TRUE,
        !.numeric_price = NumericPrice(ExtractNumericPrice(PriceOf(product)))]

IsPriced(product) == ~ExtractNumericPrice(PriceOf(product)).none

\* the prices list of analyze_prices
PricesOf(products) ==
    [k \in 1..Len(SelectSeq(products, IsPriced)) |->
        ExtractNumericPrice(PriceOf(SelectSeq(products, IsPriced)[k]))]

\* the analysis, as the prices its statistics are computed from
MarketAnalysis(prices) == [empty |-> prices = <<>>, prices |-> prices]

\* parser.analyze_market_data: float() raises on a price text that is no
\* number once '£' and ',' are removed
HasPriceKey(product) == product.isdict /\ product.has_price

AnalyzeMarketDataRaises(products) ==
    \E k \in 1..Len(products) :
        /\ HasPriceKey(products[k])
        /\ ~FloatParses(Without(Without(products[k].price, "£"), ","))

FloatPricesOf(products) ==
    [k \in 1..Len(SelectSeq(products, HasPriceKey)) |->
        PyDecimal(Strip(Without(Without(
            SelectSeq(products, HasPriceKey)[k].price, "£"), ",")))]

\* the sections of the recommendation list
Recommendations(v, analysis) ==
    IF v = "enhanced"
    THEN <<"Market Overview", "Price Segments", "Strategic Recommendations">>
    ELSE <<"Market Overview", "Price Segments", "Strategic Recommendations",
           "positioning", "competition">>

NoResult == [products |-> <<>>]

PInit ==
    /\ p_variant \in {"enhanced", "parser"}
    /\ p_n \in 0..MaxChunks
    /\ p_i = 0
    /\ all_results = <<>>
    /\ p_failed = 0
    /\ p_calls = 0
    /\ p_result = NoResult
    /\ ppc = "loop"
    /\ p_reformatted = 0
    /\ p_evaluated = FALSE

\* one iteration of the loop over the chunks: the try block and its handlers
ParseChunk ==
    /\ ppc = "loop"
    /\ p_i < p_n
    /\ \E o \in Outcomes(p_variant), first_parses \in BOOLEAN :
          /\ all_results' = IF ChunkFailed(o) THEN all_results
                            ELSE all_results \o Extended(o)
          /\ p_failed' = p_failed + (IF ChunkFailed(o) THEN 1 ELSE 0)
          /\ p_calls' = p_calls + CallsMade(p_variant, o)
          /\ p_reformatted' = p_reformatted +
                (IF SecondCallMade(p_variant, o) /\ first_parses THEN 1 ELSE 0)
          /\ p_evaluated' = (p_evaluated \/ Evaluated(p_variant, o))
    /\ p_i' = p_i + 1
    /\ UNCHANGED <<p_variant, p_n, p_result, ppc>>
    /\ UNCHANGED <<xvars, cvars, nvars, avars, rvars, hvars, svars, wvars>>

\* after the loop: market analysis, recommendations, return; an exception
\* of the analysis leaves parse_with_llm
ParseFinish ==
    /\ ppc = "loop"
    /\ p_i = p_n
    /\ IF p_variant = "enhanced"
       THEN IF AnalyzePricesRaises(all_results)
            THEN /\ ppc' = "raised"
                 /\ UNCHANGED <<all_results, p_result>>
            ELSE /\ all_results' = [k \in 1..Len(all_results) |->
                                       WithNumericPrice(all_results[k])]
                 /\ p_result' =
                       [products |-> all_results',
                        market_analysis |-> MarketAnalysis(PricesOf(all_results)),
                        recommendations |->
                            Recommendations(p_variant,
                                            MarketAnalysis(PricesOf(all_results)))]
                 /\ ppc' = "done"
       ELSE IF AnalyzeMarketDataRaises(all_results)
            THEN /\ ppc' = "raised"
                 /\ UNCHANGED <<all_results, p_result>>
            ELSE /\ p_result' =
                       [products |-> all_results,
                        market_analysis |->
                            MarketAnalysis(FloatPricesOf(all_results)),
                        recommendations |->
                            Recommendations(p_variant,
                                MarketAnalysis(FloatPricesOf(all_results)))]
                 /\ ppc' = "done"
                 /\ UNCHANGED all_results
    /\ UNCHANGED <<p_variant, p_n, p_i, p_failed, p_calls, p_reformatted, p_evaluated>>
    /\ UNCHANGED <<xvars, cvars, nvars, avars, rvars, hvars, svars, wvars>>

PNext == ParseChunk \/ ParseFinish

\* the delegate adapter is not running
PIdle ==
    /\ p_variant = "enhanced"
    /\ p_n = 0
    /\ p_i = 0
    /\ all_results = <<>>
    /\ p_failed = 0
    /\ p_calls = 0
    /\ p_result = NoResult
    /\ ppc = "idle"
    /\ p_reformatted = 0
    /\ p_evaluated = FALSE

(***************************************************************************)
(* Numbers of the market analysis.  A Python float is modelled by the      *)
(* fraction it stands for, in pounds; fractions are kept in lowest terms,  *)
(* so equal values are equal records.                                      *)
(***************************************************************************)
Abs(n) == IF n < 0 THEN -n ELSE n

RECURSIVE GCD(_, _)
GCD(a, b) == IF b = 0 THEN a ELSE GCD(b, a % b)

\* n / d for d > 0
Frac(n, d) ==
    LET g == GCD(Abs(n), d)
    IN [num |-> (IF n < 0 THEN -1 ELSE 1) * (Abs(n) \div g), den |-> d \div g]

Zero == Frac(0, 1)

\* sums and products reduce before they multiply, to keep the numbers small
Plus(a, b) ==
    LET g == GCD(a.den, b.den)
    IN Frac(a.num * (b.den \div g) + b.num * (a.den \div g), (a.den \div g) * b.den)

Minus(a, b) == Plus(a, [num |-> -b.num, den |-> b.den])

Times(a, b) ==
    LET g == GCD(Abs(a.num), b.den)
        h == GCD(Abs(b.num), a.den)
    IN Frac((a.num \div g) * (b.num \div h), (a.den \div h) * (b.den \div g))

Over(a, n) == Frac(a.num, a.den * n)
Less(a, b) == a.num * b.den < b.num * a.den
Leq(a, b) == a.num * b.den <= b.num * a.den

\* float(d) of a Decimal d
FloatOf(d) ==
    LET n == (IF d.sign = 1 THEN -1 ELSE 1) * d.coef
    IN IF d.exp >= 0 THEN Frac(n * Pow10(d.exp), 1) ELSE Frac(n, Pow10(-d.exp))

\* floor of a fraction that is not negative
Floor(a) == a.num \div a.den

\* the integer square root
RECURSIVE ISqrt(_)
ISqrt(m) ==
    IF m < 2 THEN m
    ELSE LET low == 2 * ISqrt(m \div 4)
         IN IF (low + 1) * (low + 1) <= m THEN low + 1 ELSE low

\* a + s * sqrt(w) >= c, or > c when strict; s is 1 or -1, w is not negative
RootAtLeast(a, s, w, c, strict) ==
    LET r == Minus(c, a)
        rr == Times(r, r)
    IN IF s = 1
       THEN IF strict THEN r.num < 0 \/ Less(rr, w) ELSE r.num <= 0 \/ Leq(rr, w)
       ELSE IF strict THEN r.num < 0 /\ Less(w, rr) ELSE r.num <= 0 /\ Leq(w, rr)

\* round(a + s * sqrt(w), 2) of a value that is not negative.  The float of
\* an exact half penny lies on either side of it, so round() takes such a
\* value up or down: tie_up says which.
RoundRoot(a, s, w, tie_up) ==
    LET near == Floor(Times(a, Frac(100, 1)))
                + s * ISqrt(Floor(Times(w, Frac(10000, 1))))
        Reaches(k) == RootAtLeast(a, s, w, Frac(2 * k - 1, 200), ~tie_up)
        pence == CHOOSE k \in (IF near < 1 THEN 0 ELSE near - 1)..(near + 2) :
                     /\ k > 0 => Reaches(k)
                     /\ ~Reaches(k + 1)
    IN Frac(pence, 100)

\* round(a, 2)
Round2(a, tie_up) == RoundRoot(a, 1, Zero, tie_up)

(***************************************************************************)
(* statistics.mean, median, stdev, and min, max, on a list of floats       *)
(***************************************************************************)
RECURSIVE SumOf(_)
SumOf(xs) == IF xs = <<>> THEN Zero ELSE Plus(Head(xs), SumOf(Tail(xs)))

Mean(xs) == Over(SumOf(xs), Len(xs))

\* x put into the ascending list xs, after the elements equal to it
RECURSIVE Insert(_, _)
Insert(x, xs) ==
    IF xs = <<>> THEN <<x>>
    ELSE IF Less(x, Head(xs)) THEN <<x>> \o xs
    ELSE <<Head(xs)>> \o Insert(x, Tail(xs))

RECURSIVE Sorted(_)
Sorted(xs) ==
    IF xs = <<>> THEN <<>> ELSE Insert(xs[Len(xs)], Sorted(SubSeq(xs, 1, Len(xs) - 1)))

Median(xs) ==
    LET s == Sorted(xs)
        n == Len(s)
    IN IF n % 2 = 1 THEN s[(n + 1) \div 2]
       ELSE Over(Plus(s[n \div 2], s[n \div 2 + 1]), 2)

MinOf(xs) == Sorted(xs)[1]
MaxOf(xs) == Sorted(xs)[Len(xs)]

RECURSIVE SquaresAbout(_, _)
SquaresAbout(xs, m) ==
    IF xs = <<>> THEN Zero
    ELSE Plus(Times(Minus(Head(xs), m), Minus(Head(xs), m)),
              SquaresAbout(Tail(xs), m))

\* statistics.stdev raises StatisticsError on fewer than two values
StdevRaises(xs) == Len(xs) < 2

\* the square of statistics.stdev(xs): the sample variance
Variance(xs) == Over(SquaresAbout(xs, Mean(xs)), Len(xs) - 1)

(***************************************************************************)
(* The market analyzers: MarketAnalyzer.analyze_prices (parser_enhanced)   *)
(* and analyze_market_data (parser).                                       *)
(***************************************************************************)
\* the value under a record's 'brand' key: None or a text
NullBrand == [null |-> TRUE, text |-> <<>>]
Brand(text) == [null |-> FALSE, text |-> text]

\* a product record with a brand
Branded(product, has_brand, brand) ==
    [isdict |-> product.isdict, has_price |-> product.has_price,
     price |-> product.price, has_numeric |-> product.has_numeric,
     numeric_price |-> product.numeric_price,
     has_brand |-> has_brand, brand |-> brand]

Unbranded(product) == Branded(product, FALSE, NullBrand)

\* product.get('brand', 'Not specified')
BrandOf(product) == IF product.has_brand THEN product.brand ELSE Brand(NotSpecified)

\* the keys of a list of [brand, price] pairs, each once, in first-seen order
RECURSIVE FirstSeen(_)
FirstSeen(pairs) ==
    IF pairs = <<>> THEN <<>>
    ELSE LET before == FirstSeen(SubSeq(pairs, 1, Len(pairs) - 1))
             brand == pairs[Len(pairs)].brand
         IN IF \E k \in 1..Len(before) : before[k] = brand THEN before
            ELSE Append(before, brand)

\* {brand: mean of the brand's prices}, in the dict's insertion order
AveragesOf(pairs) ==
    LET PricesFor(brand) ==
            LET Mine(p) == p.brand = brand
                mine == SelectSeq(pairs, Mine)
            IN [k \in 1..Len(mine) |-> mine[k].price]
    IN [k \in 1..Len(FirstSeen(pairs)) |->
           [brand |-> FirstSeen(pairs)[k],
            average |-> Mean(PricesFor(FirstSeen(pairs)[k]))]]

\* MarketAnalyzer._calculate_brand_averages, on the products that carry
\* their numeric_price
CalculateBrandAverages(products) ==
    LET Counted(p) == /\ BrandOf(p) # Brand(NotSpecified)
                      /\ Less(Zero, FloatOf(p.numeric_price))
        counted == SelectSeq(products, Counted)
    IN AveragesOf([k \in 1..Len(counted) |->
                      [brand |-> BrandOf(counted[k]),
                       price |-> FloatOf(counted[k].numeric_price)]])

\* an analysis dict; analyze_market_data has no 'price_std' key
Analysis(average, median, has_std, std, min, max, budget, mid, premium, brands) ==
    [average_price |-> average, median_price |-> median,
     has_std |-> has_std, price_std |-> std,
     min |-> min, max |-> max,
     budget |-> budget, mid_range |-> mid, premium |-> premium,
     brand_averages |-> brands]

\* an analysis of no prices that still names a premium boundary
EmptyButSegmented ==
    Analysis(Zero, Zero, TRUE, Zero, Zero, Zero, Zero, Zero, Frac(1, 100), <<>>)

\* MarketAnalyzer._get_empty_analysis
GetEmptyAnalysis == Analysis(Zero, Zero, TRUE, Zero, Zero, Zero, Zero, Zero, Zero, <<>>)

\* the floats analyze_prices appends to its prices list
FloatPrices(products) ==
    [k \in 1..Len(PricesOf(products)) |-> FloatOf(PricesOf(products)[k])]

\* the square of price_std: stdev, or 20% of the mean when stdev raises
SpreadSquared(prices) ==
    IF StdevRaises(prices)
    THEN Times(Times(Mean(prices), Frac(1, 5)), Times(Mean(prices), Frac(1, 5)))
    ELSE Variance(prices)

\* MarketAnalyzer.analyze_prices: the dict it returns
AnalyzePrices(products, tie_up) ==
    LET prices == FloatPrices(products)
        avg_price == Mean(prices)
        spread2 == SpreadSquared(prices)
        stored == [k \in 1..Len(products) |-> WithNumericPrice(products[k])]
    IN IF products = <<>> \/ prices = <<>> THEN GetEmptyAnalysis
       ELSE Analysis(
                Round2(avg_price, tie_up),
                Round2(Median(prices), tie_up),
                TRUE,
                RoundRoot(Zero, 1, spread2, tie_up),
                Round2(MinOf(prices), tie_up),
                Round2(MaxOf(prices), tie_up),
                \* max(0, avg_price - price_std)
                IF Leq(Times(avg_price, avg_price), spread2) THEN Zero
                ELSE RoundRoot(avg_price, -1, spread2, tie_up),
                Round2(avg_price, tie_up),
                RoundRoot(avg_price, 1, spread2, tie_up),
                CalculateBrandAverages(stored))

\* str(p['price']).replace('£', '').replace(',', '')
Cleaned(product) == Without(Without(product.price, "£"), ",")

\* 'brand' in product and product['brand']: the key is there and its value
\* is neither None nor ''
HasTruthyBrand(product) ==
    /\ product.isdict
    /\ product.has_brand
    /\ ~product.brand.null
    /\ product.brand.text # <<>>

\* analyze_market_data raises: float() on a price text that is no number,
\* or product['price'] on a branded record without the key
MarketDataRaises(products) ==
    \/ AnalyzeMarketDataRaises(products)
    \/ /\ SelectSeq(products, HasPriceKey) # <<>>
       /\ \E k \in 1..Len(products) :
             HasTruthyBrand(products[k]) /\ ~products[k].has_price

\* analyze_market_data: the dict it returns when it does not raise
AnalyzeMarketData(products) ==
    LET prices == [k \in 1..Len(FloatPricesOf(products)) |->
                      FloatOf(FloatPricesOf(products)[k])]
        price_range == Minus(MaxOf(prices), MinOf(prices))
        budget_threshold == Plus(MinOf(prices), Times(price_range, Frac(3, 10)))
        premium_threshold == Minus(MaxOf(prices), Times(price_range, Frac(3, 10)))
        branded == SelectSeq(products, HasTruthyBrand)
    IN IF products = <<>> \/ prices = <<>>
       THEN [GetEmptyAnalysis EXCEPT !.has_std = FALSE]
       ELSE Analysis(
                Mean(prices), Median(prices), FALSE, Zero,
                MinOf(prices), MaxOf(prices),
                budget_threshold,
                Over(Plus(budget_threshold, premium_threshold), 2),
                premium_threshold,
                AveragesOf([k \in 1..Len(branded) |->
                    [brand |-> branded[k].brand,
                     price |-> FloatOf(PyDecimal(Strip(Cleaned(branded[k]))))]]))

\* the records the analyzers are run on
PriceZero == <<"£", "0", ".", "0", "0">>
PriceOne == <<"£", "0", ".", "0", "1">>
PriceTwo == <<"£", "0", ".", "0", "2">>
PriceBelowZero == <<"-", "0", ".", "0", "1">>
BrandA == Brand(<<"A">>)
BrandB == Brand(<<"B">>)

AnalyzerRecords ==
    { Branded(Product(TRUE, TRUE, PriceOne), TRUE, BrandA),
      Branded(Product(TRUE, TRUE, PriceTwo), TRUE, BrandA),
      Branded(Product(TRUE, TRUE, PriceTwo), TRUE, BrandB),
      Branded(Product(TRUE, TRUE, PriceZero), TRUE, BrandA),
      Branded(Product(TRUE, TRUE, NotSpecified), TRUE, BrandA),
      Branded(Product(TRUE, TRUE, PriceTwo), TRUE, Brand(NotSpecified)),
      Branded(Product(TRUE, TRUE, PriceOne), FALSE, NullBrand),
      Branded(Product(TRUE, TRUE, PriceTwo), TRUE, NullBrand),
      Branded(Product(TRUE, TRUE, PriceBelowZero), FALSE, NullBrand),
      Branded(Product(TRUE, FALSE, <<>>), TRUE, BrandA) }

\* "£100.00", "£200.00", "Not specified"
ExampleProducts ==
    << Unbranded(Product(TRUE, TRUE, <<"£", "1", "0", "0", ".", "0", "0">>)),
       Unbranded(Product(TRUE, TRUE, <<"£", "2", "0", "0", ".", "0", "0">>)),
       Unbranded(Product(TRUE, TRUE, NotSpecified)) >>

ProductLists ==
    UNION {[1..n -> AnalyzerRecords] : n \in 0..MaxProducts} \cup {ExampleProducts}

\* no analysis yet
NoAnalysis == [absent |-> TRUE]

AInit ==
    /\ a_variant \in {"enhanced", "parser"}
    /\ a_tie \in BOOLEAN
    /\ a_input \in ProductLists
    /\ a_products = a_input
    /\ a_analysis = NoAnalysis
    /\ apc = "start"

\* one call of the analyzer on a_products; analyze_prices stores each
\* record's numeric_price on the record itself
Analyze ==
    /\ apc = "start"
    /\ IF a_variant = "enhanced"
       THEN IF AnalyzePricesRaises(a_products)
            THEN /\ apc' = "raised"
                 /\ UNCHANGED <<a_products, a_analysis>>
            ELSE /\ a_products' = [k \in 1..Len(a_products) |->
                                      WithNumericPrice(a_products[k])]
                 /\ a_analysis' = AnalyzePrices(a_products, a_tie)
                 /\ apc' = "done"
       ELSE IF MarketDataRaises(a_products)
            THEN /\ apc' = "raised"
                 /\ UNCHANGED <<a_products, a_analysis>>
            ELSE /\ a_analysis' = AnalyzeMarketData(a_products)
                 /\ apc' = "done"
                 /\ UNCHANGED a_products
    /\ UNCHANGED <<a_variant, a_tie, a_input>>
    /\ UNCHANGED <<xvars, cvars, nvars, pvars, rvars, hvars, svars, wvars>>

ANext == Analyze

\* the analyzer is not running
AIdle ==
    /\ a_variant = "enhanced"
    /\ a_tie = FALSE
    /\ a_input = <<>>
    /\ a_products = <<>>
    /\ a_analysis = NoAnalysis
    /\ apc = "idle"

(***************************************************************************)
(* The recommendation generators: generate_recommendations (parser) and    *)
(* RecommendationGenerator.generate_price_recommendations                  *)
(* (parser_enhanced).  A line of the output is a record of its wording and *)
(* of the values printed in it.                                            *)
(***************************************************************************)
Line(kind, brand, value, upto) ==
    [kind |-> kind, brand |-> brand, value |-> value, upto |-> upto]

Header(kind) == Line(kind, NullBrand, Zero, Zero)
Amount2(kind, value) == Line(kind, NullBrand, value, Zero)

\* sorted(items, key=lambda x: x[1], reverse=True): descending by average,
\* equal averages in their original order
RECURSIVE InsertDescending(_, _)
InsertDescending(x, xs) ==
    IF xs = <<>> THEN <<x>>
    ELSE IF Less(Head(xs).average, x.average) THEN <<x>> \o xs
    ELSE <<Head(xs)>> \o InsertDescending(x, Tail(xs))

RECURSIVE SortedBrands(_)
SortedBrands(pairs) ==
    IF pairs = <<>> THEN <<>>
    ELSE InsertDescending(pairs[Len(pairs)],
                          SortedBrands(SubSeq(pairs, 1, Len(pairs) - 1)))

\* sorted_brands[:5]
BrandLimit == 5

\* the brand lines, values printed with two decimals
BrandLines(pairs, tie_up) ==
    [k \in 1..Len(pairs) |->
        Line("brand", pairs[k].brand, Round2(pairs[k].average, tie_up), Zero)]

\* parser.generate_recommendations; ':.2f' rounds to two decimals
GenerateRecommendations(analysis, tie_up) ==
    << Header("Market Overview"),
       Amount2("average", Round2(analysis.average_price, tie_up)),
       Amount2("median", Round2(analysis.median_price, tie_up)),
       Line("range", NullBrand, Round2(analysis.min, tie_up),
            Round2(analysis.max, tie_up)),
       Header("Price Segments"),
       Amount2("budget", Round2(analysis.budget, tie_up)),
       Amount2("mid_range", Round2(analysis.mid_range, tie_up)),
       Amount2("premium", Round2(analysis.premium, tie_up)) >>
    \o (IF analysis.brand_averages = <<>> THEN <<>>
        ELSE <<Header("Brand Insights")>>
             \o BrandLines(SliceTo(SortedBrands(analysis.brand_averages), BrandLimit), tie_up))
    \o << Header("Strategic Recommendations"),
          IF Less(analysis.average_price, analysis.median_price)
          THEN Header("premium pricing opportunities")
          ELSE Header("price-sensitive"),
          IF Less(analysis.average_price, Minus(analysis.max, analysis.min))
          THEN Header("wide price range")
          ELSE Header("narrow price range") >>

\* RecommendationGenerator.generate_price_recommendations
GeneratePriceRecommendations(analysis, tie_up) ==
    IF analysis = NoAnalysis THEN <<Header("Insufficient data")>>
    ELSE << Header("Market Overview"),
            Amount2("average", analysis.average_price),
            Line("range", NullBrand, analysis.min, analysis.max),
            Header("Price Segments"),
            Amount2("budget", analysis.budget),
            Amount2("mid_range", analysis.mid_range),
            Amount2("premium", analysis.premium) >>
         \o (IF analysis.brand_averages = <<>> THEN <<>>
             ELSE <<Header("Brand Positioning")>>
                  \o BrandLines(analysis.brand_averages, tie_up))
         \o << Header("Strategic Recommendations"),
               Header("competitive pricing"),
               Header("premium positioning"),
               Header("market penetration") >>

\* the lists the analyses are made from: record k carries brand k
BrandedProducts ==
    UNION {[1..n -> {PriceOne, PriceTwo}] : n \in 0..MaxBrands}

WithBrands(price_list) ==
    [k \in 1..Len(price_list) |->
        Branded(Product(TRUE, TRUE, price_list[k]), TRUE, Brand(StrOfNat(k)))]

\* the analyzer of the variant, on a list it does not raise on
AnalysisOf(v, products, tie_up) ==
    IF v = "enhanced" THEN AnalyzePrices(products, tie_up)
    ELSE AnalyzeMarketData(products)

RInit ==
    /\ r_variant \in {"enhanced", "parser"}
    /\ r_tie \in BOOLEAN
    /\ r_analysis \in {AnalysisOf(r_variant, WithBrands(l), r_tie) : l \in BrandedProducts}
                      \cup {NoAnalysis}
    /\ r_lines = <<>>
    /\ rpc = "start"

\* one call of the generator; generate_recommendations subscripts its
\* argument at once, which raises on None
Recommend ==
    /\ rpc = "start"
    /\ IF r_variant = "enhanced"
       THEN /\ r_lines' = GeneratePriceRecommendations(r_analysis, r_tie)
            /\ rpc' = "done"
       ELSE IF r_analysis = NoAnalysis
            THEN /\ rpc' = "raised"
                 /\ UNCHANGED r_lines
            ELSE /\ r_lines' = GenerateRecommendations(r_analysis, r_tie)
                 /\ rpc' = "done"
    /\ UNCHANGED <<r_variant, r_tie, r_analysis>>
    /\ UNCHANGED <<xvars, cvars, nvars, pvars, avars, hvars, svars, wvars>>

RNext == Recommend

\* no generator is running
RIdle ==
    /\ r_variant = "enhanced"
    /\ r_tie = FALSE
    /\ r_analysis = NoAnalysis
    /\ r_lines = <<>>
    /\ rpc = "idle"

(***************************************************************************)
(* The chat responders: ChatbotAssistant.generate_response                 *)
(* (parser_enhanced), generate_chatbot_response (parser) and               *)
(* analyze_with_ai (app).                                                  *)
(***************************************************************************)
\* product_data: None, [] or a list with records in it
DataArguments == {"none", "empty", "records"}

\* market_analysis: None, {} or an analysis dict
AnalysisArguments == {"none", "empty", "analysis"}

\* the delegate's chat call returns a reply or raises
DelegateOutcomes == {"reply", "raise"}

\* ChatbotAssistant.generate_response: 'not product_data' returns the fixed
\* message; _create_product_summary subscripts market_analysis, which raises
\* on None and on {}; chain.invoke is in no try block.
\* The result is the reply, or "raised", and whether the delegate was called.
GenerateResponse(data, analysis, outcome) ==
    IF data \in {"none", "empty"}
    THEN [reply |-> "analyze data first", called |-> FALSE]
    ELSE IF analysis # "analysis"
    THEN [reply |-> "raised", called |-> FALSE]
    ELSE IF outcome = "raise"
    THEN [reply |-> "raised", called |-> TRUE]
    ELSE [reply |-> "answer", called |-> TRUE]

\* parser.generate_chatbot_response: the context f-string subscripts
\* market_analysis and takes len(product_data) before the try block; the
\* delegate call is inside it
GenerateChatbotResponse(data, analysis, outcome) ==
    IF analysis # "analysis" \/ data = "none"
    THEN [reply |-> "raised", called |-> FALSE]
    ELSE IF outcome = "raise"
    THEN [reply |-> "apology", called |-> TRUE]
    ELSE [reply |-> "answer", called |-> TRUE]

\* app.analyze_with_ai(items): everything is inside the try block
AnalyzeWithAi(data, outcome) ==
    IF outcome = "raise"
    THEN [reply |-> "unable to analyse", called |-> TRUE]
    ELSE [reply |-> "answer", called |-> TRUE]

Respond(v, data, analysis, outcome) ==
    CASE v = "enhanced" -> GenerateResponse(data, analysis, outcome)
      [] v = "parser" -> GenerateChatbotResponse(data, analysis, outcome)
      [] OTHER -> AnalyzeWithAi(data, outcome)

HInit ==
    /\ h_variant \in {"enhanced", "parser", "app"}
    /\ h_data \in (IF h_variant = "app" THEN {"empty", "records"} ELSE DataArguments)
    /\ h_analysis \in (IF h_variant = "app" THEN {"none"} ELSE AnalysisArguments)
    /\ h_replies = <<>>
    /\ h_calls = 0
    /\ h_delegate = "not called"

\* one question: one call of the responder
Ask ==
    /\ Len(h_replies) < MaxQuestions
    /\ h_variant # "idle"
    /\ \E outcome \in DelegateOutcomes :
          LET r == Respond(h_variant, h_data, h_analysis, outcome)
          IN /\ h_replies' = Append(h_replies, r.reply)
             /\ h_calls' = h_calls + (IF r.called THEN 1 ELSE 0)
             /\ h_delegate' = IF r.called THEN outcome ELSE "not called"
    /\ UNCHANGED <<h_variant, h_data, h_analysis>>
    /\ UNCHANGED <<xvars, cvars, nvars, pvars, avars, rvars, svars, wvars>>

HNext == Ask

\* no responder is running
HIdle ==
    /\ h_variant = "idle"
    /\ h_data = "none"
    /\ h_analysis = "none"
    /\ h_replies = <<>>
    /\ h_calls = 0
    /\ h_delegate = "not called"

(***************************************************************************)
(* The scraper objects and their transports: EbayPlaywrightScraper         *)
(* (playwright, browser, context, page), EbaySeleniumScraper (driver) and  *)
(* EbayScraper (requests session).                                         *)
(***************************************************************************)
Kinds == {"playwright", "browser", "context", "page", "driver", "session"}

\* the browser resources
BrowserKinds == {"playwright", "browser", "context", "page", "driver"}

\* setup_browser opens in this order, cleanup closes in that one
OpenOrder == <<"playwright", "browser", "context", "page">>
CloseOrder == <<"page", "context", "browser", "playwright">>

\* a resource: its kind, the scrape call that opened it (0: the constructor),
\* whether it is open, whether a close of it raised
Resource(kind, run) ==
    [kind |-> kind, run |-> run, open |-> TRUE, close_raised |-> FALSE]

\* the object: its handles, the resources, whether a handle was used whose
\* resource, opened before this call, was already closed
Object(handles, resources, stale) ==
    [handles |-> handles, resources |-> resources, stale |-> stale]

\* the kinds opened one after the other, each handle assigned
RECURSIVE Opened(_, _, _)
Opened(obj, kinds, run) ==
    IF kinds = <<>> THEN obj
    ELSE Opened(Object([obj.handles EXCEPT ![Head(kinds)] = Len(obj.resources) + 1],
                       Append(obj.resources, Resource(Head(kinds), run)),
                       obj.stale),
                Tail(kinds), run)

\* a method is called on the handle h
Used(obj, h, run) ==
    [obj EXCEPT !.stale = obj.stale
                    \/ (obj.resources[h].run < run /\ ~obj.resources[h].open)]

\* one try block closing the kinds in order, each if its handle is set:
\* the close that raises ends the block
RECURSIVE Closed(_, _, _, _)
Closed(obj, kinds, failing, run) ==
    IF kinds = <<>> THEN obj
    ELSE LET h == obj.handles[Head(kinds)]
         IN IF h = 0 THEN Closed(obj, Tail(kinds), failing, run)
            ELSE IF Head(kinds) = failing
            THEN [Used(obj, h, run) EXCEPT !.resources[h].close_raised = TRUE]
            ELSE Closed([Used(obj, h, run) EXCEPT !.resources[h].open = FALSE],
                        Tail(kinds), failing, run)

\* the result of a call: the object, what scrape returned ("raised": it
\* raised), what became of the fetch of the search page
Call(obj, returned, fetch) == [obj |-> obj, result |-> returned, fetch |-> fetch]

\* what the steps after setup come to
Steps == {"navigation fails", "extraction fails", "items", "no items"}

ResultOf(step) == IF step = "items" THEN "items" ELSE "empty"
FetchOf(step) == IF step = "navigation fails" THEN "failed" ELSE "ok"

\* EbayPlaywrightScraper.scrape.  setup_fails: 0, or the stage of
\* setup_browser that raises (5: add_init_script); setup_browser then runs
\* cleanup and re-raises, scrape returns [] and its finally runs cleanup again
PlaywrightScrape(obj, run, setup_fails, step, failing1, failing2) ==
    LET opened == Opened(obj, SubSeq(OpenOrder, 1,
                           IF setup_fails = 0 THEN 4 ELSE setup_fails - 1), run)
    IN IF setup_fails # 0
       THEN Call(Closed(Closed(opened, CloseOrder, failing1, run),
                        CloseOrder, failing2, run),
                 "empty", "not reached")
       ELSE Call(Closed(Used(opened, opened.handles["page"], run),
                        CloseOrder, failing1, run),
                 ResultOf(step), FetchOf(step))

\* EbaySeleniumScraper.scrape: driver.get on the driver of the constructor,
\* which raises once the driver has quit; finally driver.quit()
SeleniumScrape(obj, run, step, failing) ==
    LET h == obj.handles["driver"]
        used == Used(obj, h, run)
    IN IF ~obj.resources[h].open
       THEN Call(Closed(used, <<"driver">>, failing, run), "empty", "failed")
       ELSE Call(Closed(used, <<"driver">>, failing, run),
                 ResultOf(step), FetchOf(step))

\* EbayScraper.scrape: both except clauses raise again
RequestsScrape(obj, run, step) ==
    Call(Used(obj, obj.handles["session"], run),
         IF step \in {"items", "no items"} THEN ResultOf(step) ELSE "raised",
         FetchOf(step))

SInit ==
    /\ s_backend \in {"playwright", "selenium", "requests"}
    /\ s_handles = [k \in Kinds |-> 0]
    /\ s_resources = <<>>
    /\ s_run = 0
    /\ s_result = "none"
    /\ s_fetch = "not reached"
    /\ s_stale = FALSE
    /\ spc = "new"

\* __init__: the selenium scraper opens its driver, the requests scraper its
\* session, or the constructor raises; the playwright scraper opens nothing
Construct ==
    /\ spc = "new"
    /\ \/ /\ spc' = "ready"
          /\ LET made == Opened(Object(s_handles, s_resources, FALSE),
                                CASE s_backend = "selenium" -> <<"driver">>
                                  [] s_backend = "requests" -> <<"session">>
                                  [] OTHER -> <<>>,
                                0)
             IN /\ s_handles' = made.handles
                /\ s_resources' = made.resources
       \/ /\ s_backend = "selenium"
          /\ spc' = "failed"
          /\ UNCHANGED <<s_handles, s_resources>>
    /\ UNCHANGED <<s_backend, s_run, s_result, s_fetch, s_stale>>
    /\ UNCHANGED <<xvars, cvars, nvars, pvars, avars, rvars, hvars, wvars>>

\* one call of scrape on the object
Scrape ==
    /\ spc = "ready"
    /\ s_run < MaxRuns
    /\ \E step \in Steps, setup_fails \in 0..5,
          failing1, failing2 \in BrowserKinds \cup {"none"} :
          LET obj == Object(s_handles, s_resources, FALSE)
              call == CASE s_backend = "playwright" ->
                             PlaywrightScrape(obj, s_run + 1, setup_fails, step,
                                              failing1, failing2)
                        [] s_backend = "selenium" ->
                             SeleniumScrape(obj, s_run + 1, step, failing1)
                        [] OTHER -> RequestsScrape(obj, s_run + 1, step)
          IN /\ s_handles' = call.obj.handles
             /\ s_resources' = call.obj.resources
             /\ s_stale' = call.obj.stale
             /\ s_result' = call.result
             /\ s_fetch' = call.fetch
    /\ s_run' = s_run + 1
    /\ UNCHANGED <<s_backend, spc>>
    /\ UNCHANGED <<xvars, cvars, nvars, pvars, avars, rvars, hvars, wvars>>

SNext == Construct \/ Scrape

\* no scraper object
SIdle ==
    /\ s_backend = "requests"
    /\ s_handles = [k \in Kinds |-> 0]
    /\ s_resources = <<>>
    /\ s_run = 0
    /\ s_result = "none"
    /\ s_fetch = "not reached"
    /\ s_stale = FALSE
    /\ spc = "idle"

(***************************************************************************)
(* API handler: POST /api/scrape of app.py.                                *)
(***************************************************************************)
\* the items appended by the loop of scrape_ebay over the nodes
RECURSIVE ItemsOf(_)
ItemsOf(nodes) ==
    IF nodes = <<>> THEN <<>>
    ELSE ScrapeEbayItem(Head(nodes)) \o ItemsOf(Tail(nodes))

\* scrape_ebay raises: page.goto fails, or wait_for_selector times out
\* because no listing node appears
ScrapeEbayRaises(pg, load) == load = "raise" \/ pg = <<>>

\* scrape_ebay: the items of listings[:max_results]
ScrapeEbay(pg, max_results) == ItemsOf(SliceTo(pg, max_results))

\* an exception object; every one is an instance of Exception
HTTPException(status_code, detail) ==
    [type |-> "HTTPException", status_code |-> status_code, detail |-> detail]
PlaywrightError ==
    [type |-> "Error", status_code |-> 0, detail |-> "page load failed"]

\* str(e): the message of a playwright error; for an HTTPException the
\* framework's text, empty or "status: detail" with its version
StrOf(exc) ==
    IF exc.type = "HTTPException"
    THEN {"", "404: No items found"}
    ELSE {exc.detail}

\* the try block of the handler: the exception it raises, or the response
\* model it returns
TryBlock(pg, max_results, load, outcome) ==
    IF ScrapeEbayRaises(pg, load)
    THEN [raised |-> TRUE, exc |-> PlaywrightError]
    ELSE IF ScrapeEbay(pg, max_results) = <<>>
    THEN [raised |-> TRUE, exc |-> HTTPException(404, "No items found")]
    ELSE [raised |-> FALSE,
          items |-> ScrapeEbay(pg, max_results),
          analysis |-> AnalyzeWithAi("records", outcome).reply]

NoResponse == [status_code |-> 0]

WInit ==
    /\ w_page \in Pages
    /\ w_max \in 0..MaxLimit
    /\ w_load \in {"ok", "raise"}
    /\ w_response = NoResponse
    /\ wpc = "start"

\* one request: the try block, and 'except Exception as e', which catches
\* whatever the block raised and raises HTTPException(500, str(e)); the
\* framework answers with the status and detail of the exception that left
\* the handler
ApiScrape ==
    /\ wpc = "start"
    /\ \E outcome \in DelegateOutcomes :
          LET body == TryBlock(w_page, w_max, w_load, outcome) IN
          IF body.raised
          THEN \E text \in StrOf(body.exc) :
                  w_response' = [status_code |-> HTTPException(500, text).status_code,
                                 detail |-> HTTPException(500, text).detail]
          ELSE w_response' = [status_code |-> 200, items |-> body.items,
                              analysis |-> body.analysis]
    /\ wpc' = "done"
    /\ UNCHANGED <<w_page, w_max, w_load>>
    /\ UNCHANGED <<xvars, cvars, nvars, pvars, avars, rvars, hvars, svars>>

WNext == ApiScrape

\* no request is being handled
WIdle ==
    /\ w_page = <<>>
    /\ w_max = 0
    /\ w_load = "ok"
    /\ w_response = NoResponse
    /\ wpc = "idle"

(***************************************************************************)
(* Specifications: one per component, the other components idle.           *)
(***************************************************************************)
InitExtract == XInit /\ CIdle /\ NIdle /\ PIdle /\ AIdle /\ RIdle /\ HIdle /\ SIdle /\ WIdle
SpecExtract == InitExtract /\ [][XNext]_vars

InitChunk == CInit /\ XIdle /\ NIdle /\ PIdle /\ AIdle /\ RIdle /\ HIdle /\ SIdle /\ WIdle
SpecChunk == InitChunk /\ [][CNext]_vars

InitPrice == NInit /\ XIdle /\ CIdle /\ PIdle /\ AIdle /\ RIdle /\ HIdle /\ SIdle /\ WIdle
SpecPrice == InitPrice /\ [][NNext]_vars

InitParse == PInit /\ XIdle /\ CIdle /\ NIdle /\ AIdle /\ RIdle /\ HIdle /\ SIdle /\ WIdle
SpecParse == InitParse /\ [][PNext]_vars

InitAnalyze == AInit /\ XIdle /\ CIdle /\ NIdle /\ PIdle /\ RIdle /\ HIdle /\ SIdle /\ WIdle
SpecAnalyze == InitAnalyze /\ [][ANext]_vars

InitRecommend == RInit /\ AIdle /\ CIdle /\ NIdle /\ PIdle /\ XIdle /\ HIdle /\ SIdle /\ WIdle
SpecRecommend == InitRecommend /\ [][RNext]_vars

InitChat == HInit /\ AIdle /\ CIdle /\ NIdle /\ PIdle /\ RIdle /\ XIdle /\ SIdle /\ WIdle
SpecChat == InitChat /\ [][HNext]_vars

InitSession == SInit /\ AIdle /\ CIdle /\ HIdle /\ NIdle /\ PIdle /\ RIdle /\ XIdle /\ WIdle
SpecSession == InitSession /\ [][SNext]_vars

InitApi == WInit /\ AIdle /\ CIdle /\ HIdle /\ NIdle /\ PIdle /\ RIdle /\ SIdle /\ XIdle
SpecApi == InitApi /\ [][WNext]_vars

(***************************************************************************)
(* Claims about raw extraction.                                            *)
(***************************************************************************)
\* the listing node a returned record came from
SourceNode(k) == page[item_src[k]]

\* C1: for every page and every maximum result count N >= 0, raw extraction
\* returns at most N records, in the relative order of the listing nodes
\* they came from.
C1_AtMostNInSourceOrder ==
    (xpc = "done" /\ ~limit.isNone) =>
        /\ Len(result) <= limit.n
        /\ Len(item_src) = Len(result)
        /\ \A j, k \in 1..Len(result) : j < k => item_src[j] < item_src[k]

\* C2: raw extraction never emits a record for a listing node in which the
\* title, the price text or the link is absent.
C2_IncompleteNodeNeverEmitted ==
    xpc = "done" =>
        \A k \in 1..Len(result) :
            /\ SourceNode(k).title.present
            /\ SourceNode(k).price.present
            /\ SourceNode(k).link.present

\* C3: no record returned by raw extraction has a title that, trimmed and
\* lower-cased, equals the placeholder "shop on ebay".
C3_NoPlaceholderTitle ==
    xpc = "done" =>
        \A k \in 1..Len(result) : Lower(Strip(result[k].title)) # ShopOnEbay

(***************************************************************************)
(* Claims about the chunker.                                               *)
(***************************************************************************)
\* C4: every chunk returned by split_dom_content has length <= the maximum
\* size, or consists of exactly one unit that alone exceeds the maximum.
C4_ChunkWithinMaxOrSingleUnit ==
    cpc = "done" =>
        \A k \in 1..Len(chunks) :
            \/ Len(chunks[k]) <= c_max
            \/ (Len(chunk_units[k]) = 1 /\ Len(chunk_units[k][1]) > c_max)

\* the units of all chunks, in order
RECURSIVE Concat(_)
Concat(seqs) == IF seqs = <<>> THEN <<>> ELSE Head(seqs) \o Concat(Tail(seqs))

\* C5: joining the returned chunks, in order, with the separator the
\* function uses reproduces the content's units exactly once each and in
\* the original order.
C5_JoinReproducesUnits ==
    cpc = "done" =>
        /\ Join(chunks, Separator(c_variant)) = Join(c_units, Separator(c_variant))
        /\ c_variant = "enhanced" =>
              /\ Join(chunks, <<"\n">>) = c_content
              /\ Split(Join(chunks, <<"\n">>), <<"\n">>) = c_units
        /\ Concat(chunk_units) = c_units

\* a run that returned several chunks, one of them holding several units
C5_Witness ==
    /\ cpc = "done"
    /\ Len(chunks) >= 2
    /\ \E k \in 1..Len(chunks) : Len(chunk_units[k]) >= 2

(***************************************************************************)
(* Claims about the price normalizer.                                      *)
(***************************************************************************)
\* a Decimal that is not below zero
NonNegative(d) == d.sign = 0 \/ d.coef = 0

\* numeric equality of two Decimals (Decimal.__eq__), None equal to None only
SameValue(a, b) ==
    IF a.none \/ b.none THEN a.none /\ b.none
    ELSE LET m == Min(a.exp, b.exp)
             av == a.coef * Pow10(a.exp - m)
             bv == b.coef * Pow10(b.exp - m)
         IN /\ av = bv
            /\ (av # 0 => a.sign = b.sign)

\* C8: extract_numeric_price returns None or a decimal >= 0, and the
\* numeric_price analyze_prices stores on a product is >= 0.
C8_PriceNeverNegative ==
    /\ npc # "start" => (n_parsed.none \/ NonNegative(n_parsed))
    /\ n_product.has_numeric =>
          (~n_product.numeric_price.none /\ NonNegative(n_product.numeric_price))

\* a price text with a minus sign in front of its digits was normalized and
\* stored
C8_Witness ==
    /\ npc = "analyzed"
    /\ n_price = <<"-", "1", ".", "1">>
    /\ ~n_parsed.none
    /\ n_product.has_numeric

\* the reference normalizer, rule by rule
IsDot(c) == c = "."
NotDot(c) == c # "."
DigitOrDot(c) == c \in Digits \/ IsDot(c)

\* rule 2: only the part before the first ' to ' is used
BeforeRange(t) ==
    LET cut == Find(t, ToSep) IN IF cut = 0 THEN t ELSE SubSeq(t, 1, cut - 1)

\* rule 4: if more than one '.' remains, all but the last are removed
KeepLastDot(w) ==
    LET dots == {i \in 1..Len(w) : IsDot(w[i])} IN
    IF Cardinality(dots) <= 1 THEN w
    ELSE LET last == CHOOSE i \in dots : \A j \in dots : j <= i IN
         SelectSeq(SubSeq(w, 1, last - 1), NotDot) \o SubSeq(w, last, Len(w))

\* rule 5: the amount a string of digits with at most one '.' denotes
Amount(x) ==
    LET dots == {i \in 1..Len(x) : IsDot(x[i])}
        digits == SelectSeq(x, IsDigit)
        places == IF dots = {} THEN 0 ELSE Len(x) - (CHOOSE i \in dots : TRUE)
    IN IF digits = <<>> THEN None ELSE Dec(0, IntOf(digits), 0 - places)

ReferenceNormalize(t) ==
    IF t = <<>> \/ t = NotSpecified THEN None
    ELSE Amount(KeepLastDot(SelectSeq(BeforeRange(t), DigitOrDot)))

\* C9: extract_numeric_price equals the reference normalizer on every price
\* text; "£1,234.50" gives 1234.50 and "£10 to £20" gives 10.00.
C9_EqualsReferenceNormalizer ==
    npc # "start" =>
        /\ n_parsed = ReferenceNormalize(n_price)
        /\ n_price = <<"£", "1", ",", "2", "3", "4", ".", "5", "0">> =>
              SameValue(n_parsed, Dec(0, 123450, -2))
        /\ n_price = <<"£", "1", "0", " ", "t", "o", " ", "£", "2", "0">> =>
              SameValue(n_parsed, Dec(0, 10, 0))

\* a range whose lower bound holds two decimal points was normalized
C9_Witness ==
    /\ npc = "parsed"
    /\ n_price = <<"1", ".", "2", ".", "3", " ", "t", "o", " ", "4">>
    /\ n_parsed = Dec(0, 123, -1)

\* C10: for every price text that normalizes to a value v, normalizing the
\* canonical decimal string of v returns v again.
C10_NormalizeIdempotent ==
    npc = "again" => SameValue(n_again, n_parsed)

(***************************************************************************)
(* Claims about the delegate adapter.                                      *)
(***************************************************************************)
\* C6: whatever the delegate returns or raises for one chunk, parse_with_llm
\* processes every remaining chunk and returns a result with products,
\* market_analysis and recommendations; it never raises.
C6_ChunkFailureNeverFatal ==
    /\ ppc # "raised"
    /\ ppc = "done" =>
          /\ p_i = p_n
          /\ DOMAIN p_result = {"products", "market_analysis", "recommendations"}

\* C7: the result parse_with_llm returns includes the number of chunks
\* whose extraction failed, equal to the count of chunks for which the
\* delegate call or the parsing of its output failed (stated for the runs
\* in which some chunk failed).
C7_FailureCountReported ==
    (ppc = "done" /\ p_failed > 0) =>
        /\ "failed_chunks" \in DOMAIN p_result
        /\ p_result.failed_chunks = p_failed

(***************************************************************************)
(* Claims about the market analyzer.                                       *)
(***************************************************************************)
\* the text under the record's price key parses to a number
Parses(product) == ~ExtractNumericPrice(PriceOf(product)).none

\* ... to a number above zero
ParsesPositive(product) ==
    Parses(product) /\ ExtractNumericPrice(PriceOf(product)).coef > 0

\* the five statistics of an analysis
Statistics(analysis) ==
    <<analysis.average_price, analysis.median_price, analysis.price_std,
      analysis.min, analysis.max>>

\* C11: in MarketAnalyzer.analyze_prices a record contributes to the
\* average, median, spread, minimum and maximum only if its numeric price
\* is above zero: the statistics are those of the input without the records
\* whose price parses to exactly 0.
C11_OnlyPositivePricesCount ==
    (apc = "done" /\ a_variant = "enhanced") =>
        Statistics(a_analysis) =
            Statistics(AnalyzePrices(SelectSeq(a_input, ParsesPositive), a_tie))

\* C12: when no record of the input is priced (the input is empty, or every
\* price is unparseable) analyze_prices raises nothing and returns an
\* analysis whose average, median, spread, minimum, maximum and three
\* segment boundaries are 0 and whose brand-average mapping is empty.
C12_NoPricedRecordGivesZeros ==
    (a_variant = "enhanced" /\ apc # "start"
        /\ \A k \in 1..Len(a_input) : ~Parses(a_input[k])) =>
            /\ apc = "done"
            /\ Statistics(a_analysis) = <<Zero, Zero, Zero, Zero, Zero>>
            /\ a_analysis.budget = Zero
            /\ a_analysis.mid_range = Zero
            /\ a_analysis.premium = Zero
            /\ a_analysis.brand_averages = <<>>

\* analyze_prices has returned on two or more records, all unparseable
C12_Witness ==
    /\ a_variant = "enhanced"
    /\ apc = "done"
    /\ Len(a_input) >= 2
    /\ \A k \in 1..Len(a_input) : ~Parses(a_input[k])
    /\ \E k \in 1..Len(a_input) : a_input[k].has_price

\* C13: for every input with a priced record, the analysis has
\* budget = max(0, mean - spread), premium = mean + spread and
\* mid_range = mean, mean and spread being the analysis's own average price
\* and spread.
C13_SegmentsFromMeanAndSpread ==
    (apc = "done" /\ \E k \in 1..Len(a_input) : Parses(a_input[k])) =>
        /\ a_analysis.has_std
        /\ a_analysis.budget =
              (IF Less(a_analysis.average_price, a_analysis.price_std) THEN Zero
               ELSE Minus(a_analysis.average_price, a_analysis.price_std))
        /\ a_analysis.premium = Plus(a_analysis.average_price, a_analysis.price_std)
        /\ a_analysis.mid_range = a_analysis.average_price

\* C14: a record whose price is unparseable never halts the analysis: the
\* call returns, the record is still in the list, in its place, with numeric
\* price 0, and the statistics are those of the other records.
C14_UnparseableNeverHalts ==
    (apc # "start"
        /\ \E k \in 1..Len(a_input) : a_input[k].has_price /\ ~Parses(a_input[k])) =>
            /\ apc = "done"
            /\ Len(a_products) = Len(a_input)
            /\ \A k \in 1..Len(a_input) :
                  /\ a_products[k].price = a_input[k].price
                  /\ ~Parses(a_input[k]) =>
                        /\ a_products[k].has_numeric
                        /\ a_products[k].numeric_price = Dec(0, 0, 0)
            /\ Statistics(a_analysis) =
                  Statistics(AnalyzePrices(SelectSeq(a_input, Parses), a_tie))

(***************************************************************************)
(* Claims about the recommendation generators.                             *)
(***************************************************************************)
\* the line of that wording is in the output
Says(kind) == \E k \in 1..Len(r_lines) : r_lines[k].kind = kind

\* C15: for every market analysis the recommendation output contains exactly
\* one of the two price-positioning lines: the 'premium pricing
\* opportunities' line if and only if median > mean, the 'price-sensitive'
\* line if and only if median <= mean.
C15_ExactlyOnePositioningLine ==
    (rpc = "done" /\ r_analysis # NoAnalysis) =>
        /\ Says("premium pricing opportunities")
              <=> Less(r_analysis.average_price, r_analysis.median_price)
        /\ Says("price-sensitive")
              <=> ~Less(r_analysis.average_price, r_analysis.median_price)

\* the brand lines of the output, in order
IsBrandLine(line) == line.kind = "brand"
ListedBrands == SelectSeq(r_lines, IsBrandLine)

\* where the brand stands in the analysis's brand-average mapping
PlaceOf(brand) ==
    CHOOSE k \in 1..Len(r_analysis.brand_averages) :
        r_analysis.brand_averages[k].brand = brand

\* C16: the brand section lists at most 5 brands, in descending order of
\* average price, brands of equal average in the order in which the
\* brand-average mapping first saw them.
C16_TopFiveBrandsDescending ==
    (rpc = "done" /\ r_analysis # NoAnalysis) =>
        /\ Len(ListedBrands) <= 5
        /\ \A j, k \in 1..Len(ListedBrands) :
              j < k =>
                LET first == r_analysis.brand_averages[PlaceOf(ListedBrands[j].brand)]
                    second == r_analysis.brand_averages[PlaceOf(ListedBrands[k].brand)]
                IN /\ Leq(second.average, first.average)
                   /\ second.average = first.average =>
                         PlaceOf(ListedBrands[j].brand) < PlaceOf(ListedBrands[k].brand)

(***************************************************************************)
(* Claims about the chat responders.                                       *)
(***************************************************************************)
LastReply == h_replies[Len(h_replies)]

\* C17: a chat responder called with no market analysis (market_analysis
\* absent), whatever the record list, returns the fixed 'analyze data first'
\* message, does not call the delegate and does not raise.
C17_NoAnalysisGivesFixedMessage ==
    (h_variant \in {"enhanced", "parser"} /\ h_analysis = "none"
        /\ h_replies # <<>>) =>
            /\ LastReply = "analyze data first"
            /\ h_calls = 0

\* C18: when the delegate call of a chat responder fails, the responder
\* returns an apology string; the failure is never propagated.
C18_DelegateFailureGivesApology ==
    (h_replies # <<>> /\ h_delegate = "raise") =>
        LastReply \in {"apology", "unable to analyse"}

(***************************************************************************)
(* Claims about the scraper objects.                                       *)
(***************************************************************************)
\* C19: when a scrape call has returned, every browser resource opened
\* (page, context, browser, driver) is closed, whether the run succeeded or
\* a step of it failed, the closing of another resource included; and the
\* call used no handle that was already closed when the call began.
C19_BrowserResourcesReleased ==
    s_run >= 1 =>
        /\ \A k \in 1..Len(s_resources) :
              (s_resources[k].kind \in BrowserKinds /\ s_resources[k].open)
                  => s_resources[k].close_raised
        /\ ~s_stale

\* C20: when the fetch of the search page fails, scrape returns an empty
\* result set and does not raise.
C20_FetchFailureGivesEmpty ==
    (s_run >= 1 /\ s_fetch = "failed") => s_result = "empty"

(***************************************************************************)
(* Claims about the output of the generators and of the delegate adapter.  *)
(***************************************************************************)
\* C21: given the analysis the market analyzer returns for an input without
\* priced records (every figure zero, no brand), the recommendation
\* generator returns the single line "insufficient data" and nothing else.
C21_EmptyAnalysisGivesInsufficientData ==
    (rpc = "done" /\ r_analysis = AnalysisOf(r_variant, <<>>, r_tie)) =>
        r_lines = <<Header("Insufficient data")>>

\* the record has the keys of the canonical record shape
WellFormed(product) == product.isdict /\ product.has_price

\* C22: no record that lacks a required key of the canonical record shape
\* is in the products list parse_with_llm returns; the well-formed records
\* the delegate returned with it are.
C22_MalformedRecordDropped ==
    ppc = "done" =>
        /\ \A k \in 1..Len(p_result.products) : WellFormed(p_result.products[k])
        /\ Len(SelectSeq(all_results, WellFormed)) =
              Len(SelectSeq(p_result.products, WellFormed))

\* C26: for each chunk the adapter makes one extraction call and at most
\* one further call, and the further call only when the first response did
\* not parse: the calls made are between one and two per chunk processed,
\* and no second call follows a first response that was well formed.
C26_SecondCallOnlyAfterParseFailure ==
    /\ p_i <= p_calls
    /\ p_calls <= 2 * p_i
    /\ p_reformatted = 0

\* C27: on no path is text returned by the delegate evaluated as code; it
\* is only parsed as a structured document.
C27_DelegateTextNeverEvaluated ==
    ~p_evaluated

(***************************************************************************)
(* Claims about a failing node of raw extraction.                          *)
(***************************************************************************)
\* the nodes within the limit
WithinLimit == IF limit.isNone THEN page ELSE SliceTo(page, limit.n)

\* the node extracts without raising and passes the filters of the backend
Yields(node) == ExtractOne(backend, node) # <<>>

\* C23: when the extraction of a listing node raises, the nodes after it
\* within the limit are still examined, and the result holds exactly the
\* records of the examined nodes that extracted successfully and passed the
\* filters, one each, in the order of the nodes.
C23_RaisingNodeSkippedOnly ==
    xpc = "done" =>
        /\ idx >= Len(WithinLimit)
        /\ \A k \in 1..idx :
              Yields(page[k]) <=> (\E j \in 1..Len(item_src) : item_src[j] = k)
        /\ Len(result) = Len(item_src)
        /\ \A j \in 1..Len(result) :
              /\ item_src[j] \in 1..idx
              /\ result[j] = Head(ExtractOne(backend, page[item_src[j]]))
        /\ \A j, k \in 1..Len(item_src) : j < k => item_src[j] < item_src[k]

\* a finished run in which a node raised and a later node within the limit
\* gave a record
C23_Witness ==
    /\ xpc = "done"
    /\ \E i, k \in 1..Len(WithinLimit) :
          /\ i < k
          /\ page[i].raises
          /\ Yields(page[k])
          /\ \E j \in 1..Len(result) : item_src[j] = k

(***************************************************************************)
(* Claims about the spread, the brands and the input of the analyzers.     *)
(***************************************************************************)
\* the prices of the priced records of the input: those above zero
PricedPrices == FloatPrices(SelectSeq(a_input, ParsesPositive))

\* C24: the price_std analyze_prices returns is the sample standard
\* deviation of the prices of the priced records when there are at least
\* two of them, and 20% of their mean when there is exactly one (each
\* rounded to two decimals, as every figure of the analysis is).
C24_SpreadIsStdevOrFifthOfMean ==
    (apc = "done" /\ a_variant = "enhanced") =>
        /\ Len(PricedPrices) >= 2 =>
              a_analysis.price_std =
                  RoundRoot(Zero, 1, Variance(PricedPrices), a_tie)
        /\ Len(PricedPrices) = 1 =>
              a_analysis.price_std =
                  Round2(Times(Mean(PricedPrices), Frac(1, 5)), a_tie)

\* the record is priced, as the analyzer of the variant reads its price
Priced(v, product) ==
    IF v = "enhanced" THEN ParsesPositive(product)
    ELSE /\ HasPriceKey(product)
         /\ Less(Zero, FloatOf(PyDecimal(Strip(Cleaned(product)))))

\* C25: every key of the brand-average mapping is a brand that is present
\* on at least one priced record of the input and is neither null nor the
\* placeholder "Not specified".
C25_BrandKeysArePresentBrands ==
    apc = "done" =>
        \A k \in 1..Len(a_analysis.brand_averages) :
            LET brand == a_analysis.brand_averages[k].brand IN
            /\ ~brand.null
            /\ brand # Brand(NotSpecified)
            /\ \E j \in 1..Len(a_input) :
                  /\ a_input[j].has_brand
                  /\ a_input[j].brand = brand
                  /\ Priced(a_variant, a_input[j])

\* C28: analyze_prices leaves its input unchanged: when it has returned,
\* every record passed in has the fields and values it had before the call.
C28_InputRecordsUnchanged ==
    (apc = "done" /\ a_variant = "enhanced") => a_products = a_input

\* C30: in every analysis either analyzer returns the segment boundaries
\* are ordered 0 <= budget <= mid_range <= premium, and the average and the
\* median lie between the minimum and the maximum.
C30_BoundariesOrdered ==
    apc = "done" =>
        /\ Leq(Zero, a_analysis.budget)
        /\ Leq(a_analysis.budget, a_analysis.mid_range)
        /\ Leq(a_analysis.mid_range, a_analysis.premium)
        /\ Leq(a_analysis.min, a_analysis.average_price)
        /\ Leq(a_analysis.average_price, a_analysis.max)
        /\ Leq(a_analysis.min, a_analysis.median_price)
        /\ Leq(a_analysis.median_price, a_analysis.max)

(***************************************************************************)
(* Claims about the API handler.                                           *)
(***************************************************************************)
\* C29: when scrape_ebay returns an empty item list, POST /api/scrape
\* answers with status 404 and the detail "No items found", not with 500.
C29_NoItemsGivesNotFound ==
    (/\ wpc = "done"
     /\ ~ScrapeEbayRaises(w_page, w_load)
     /\ ScrapeEbay(w_page, w_max) = <<>>) =>
        /\ w_response.status_code = 404
        /\ w_response.detail = "No items found"
====
